---- MODULE Spec2Model ----
(***************************************************************************)
(* The adapter layer of bluest: the CoreBluetooth adapter                  *)
(* (src/src/corebluetooth/adapter.rs) and the Windows adapter              *)
(* (src/src/windows/adapter.rs).                                           *)
(*                                                                         *)
(* Callers are threads that invoke the public operations of one Adapter    *)
(* (and its clones).  Every statement that reads or writes state shared    *)
(* with another thread (the central's power state, the scanning flag, the  *)
(* broadcast channel, the native scan) is one step, so that the steps of   *)
(* different callers and of the native callback thread interleave.         *)
(***************************************************************************)
EXTENDS Integers, Sequences, FiniteSets, TLC

\* ------------------------------------------------------------------ bounds

\* Native notifications (power transitions, device events, advertisements)
\* that occur in one behaviour.
MaxEvents == 3

\* tokio::sync::broadcast::channel(16)
Capacity == 16

\* futures_channel::mpsc::channel(16): the buffer; each sender adds one slot.
WinBuffer == 16

Callers == {1, 2}
Devices == {1, 2}
\* The advertisers in range of a scan.
Advertisers == {1}
\* The advertisers in range of a scan that filters by service, the service
\* UUIDs each one advertises, and the filters a scan() call passes.
FilterAdvertisers == {1, 2}
ServicesOf(d) == IF d = 1 THEN {"A"} ELSE {"B"}
Filters == {{}, {"A"}, {"A", "C"}}
\* What goes wrong with a received advertisement: nothing, its address
\* cannot be read, or no Device can be created for its address.
Failures == {"none", "address", "device"}

\* The GATT services each device exposes, and the service filters an
\* enumeration of the connected devices is called with.
GattServices(d) == IF d = 1 THEN {"A", "B"} ELSE {"B"}
EnumFilters == {{}, {"A"}, {"A", "B"}, {"C"}}

\* Native notifications in a behaviour that overruns the channels.
LagEvents == 18

\* The longest manufacturer-data payload handed to the encoder and the most
\* data sections in a received advertisement.
MaxPayload == 2
MaxSections == 2

\* ------------------------------------------------------------------- state

VARIABLES
    backend,    \* "corebluetooth" | "windows": the platform the crate is built for
    power,      \* "On" | "Off": central.state() == PoweredOn / radio.State() == On
    pendingSC,  \* power transitions whose state-change callback has not run yet
    log,        \* the events the native callback has published, in order
    closed,     \* every broadcast Sender has been dropped
    scanning,   \* Adapter.scanning, the AtomicBool shared by the clones
    nativeScan, \* the central manager is scanning
    active,     \* callers whose scan_for_peripherals has not been stopped since
    watch,      \* per caller: its BluetoothLEAdvertisementWatcher
    chan,       \* per caller: the mpsc channel of its Windows stream
    handlers,   \* callers whose radio StateChanged handler is registered
    pc,         \* per caller: where it is in its operation
    op,         \* per caller: the operation it runs
    target,     \* per caller: the device of a connect/disconnect call
    res,        \* per caller: the result of its latest call
    rx,         \* per caller: next position of its broadcast Receiver
    cmds,       \* native connect/cancel commands not answered yet
    pwr,        \* per caller: the power state its latest precondition check read
    last,       \* per caller: the stream item its call processed last
    lastPwr,    \* per caller: the power state read while processing that item
    phase,      \* per caller: life of its scan stream: fresh | mid | ended
    dropped,    \* the phases at which scan streams have been dropped so far
    held,       \* per caller: another scan stream was alive when its scan() returned
    blocked,    \* per caller: who held the flag when its swap ran
    waited,     \* per caller: its call suspended on the event stream
    subAt,      \* per caller: Len(log) when its call subscribed
    leftWhile,  \* callers that were waiting when the adapter last left "On"
    out,        \* per caller: the items its scan stream has yielded
    filter,     \* per caller: the services argument of its scan() calls
    bound,      \* the native notifications that occur in this behaviour
    seen,       \* per caller: the items its subscription has delivered
    codecIn,    \* the value handed to the advertisement codec
    codecPos,   \* the data sections the decoder has gone through
    codecOut,   \* what the codec has produced
    connected,  \* the devices the native framework holds a connection to
    found,      \* per caller: what the first query of its enumeration found
    advert      \* the advertiser role: its native state and its guard

envVars  == <<backend, power, pendingSC, log, closed>>
scanVars == <<scanning, nativeScan, active, watch, phase, dropped, held, blocked>>
winVars  == <<chan, handlers>>
callVars == <<pc, op, res, rx, pwr>>
connVars == <<target, cmds, last, lastPwr, subAt, leftWhile>>
codecVars == <<codecIn, codecPos, codecOut>>
periVars == <<connected, found, advert>>
extVars  == <<out, filter, bound, seen, codecIn, codecPos, codecOut,
              connected, found, advert>>
vars == <<backend, power, pendingSC, log, closed, scanning, nativeScan, active,
          watch, chan, handlers, pc, op, target, res, rx, cmds, pwr, last,
          lastPwr, phase, dropped, held, blocked, waited, subAt, leftWhile,
          out, filter, bound, seen, codecIn, codecPos, codecOut,
          connected, found, advert>>

\* ------------------------------------------------------------------ events

\* delegates::CentralEvent. cmd names the caller whose native command the
\* event answers (0: none).
Ev(t, d, e, c) == [type |-> t, dev |-> d, err |-> e, cmd |-> c]
StateChanged == Ev("StateChanged", 0, FALSE, 0)
Discovered(d) == Ev("Discovered", d, FALSE, 0)
NoEv == Ev("None", 0, FALSE, 0)

\* Room for one more native notification within the bound.
Room == Len(log) + pendingSC < bound

\* --------------------------------------------------- the broadcast channel

\* The oldest position the channel still retains.
Oldest == IF Len(log) > Capacity THEN Len(log) - Capacity + 1 ELSE 1

\* Mutation of Recv: a receiver that fell behind is handed the oldest retained
\* event without being told that it missed any.
RecvSilentSkip(c) ==
    IF rx[c] < Oldest
    THEN [kind |-> "Item", ev |-> log[Oldest], next |-> Oldest + 1]
    ELSE IF rx[c] <= Len(log)
         THEN [kind |-> "Item", ev |-> log[rx[c]], next |-> rx[c] + 1]
    ELSE IF closed THEN [kind |-> "Closed", ev |-> NoEv, next |-> rx[c]]
    ELSE [kind |-> "Pending", ev |-> NoEv, next |-> rx[c]]

\* Receiver::recv as BroadcastStream polls it: what the next poll of caller c's
\* stream produces.
Recv(c) ==
    IF rx[c] < Oldest THEN [kind |-> "Lagged", ev |-> NoEv, next |-> Oldest]
    ELSE IF rx[c] <= Len(log)
         THEN [kind |-> "Item", ev |-> log[rx[c]], next |-> rx[c] + 1]
    ELSE IF closed THEN [kind |-> "Closed", ev |-> NoEv, next |-> rx[c]]
    ELSE [kind |-> "Pending", ev |-> NoEv, next |-> rx[c]]

\* A stream item as the consumer sees it.
NoItem == [kind |-> "None", ev |-> NoEv]
Item(r) == [kind |-> r.kind, ev |-> r.ev]

\* self.sender.subscribe(): the receiver sees what is sent from now on.
Subscribe == Len(log) + 1

\* ------------------------------------------------------- the native layer

\* The adapter's power state changes; the state-change callback runs later
\* on the dispatch queue.
PowerToggle ==
    /\ Room
    /\ power' = IF power = "On" THEN "Off" ELSE "On"
    /\ pendingSC' = pendingSC + 1
    /\ leftWhile' = IF power = "On"
                    THEN {c \in Callers : pc[c] \in {"waiting", "stream"}}
                    ELSE {}
    /\ UNCHANGED <<backend, log, closed>>
    /\ UNCHANGED <<scanVars, winVars, callVars, waited>>
    /\ UNCHANGED <<target, cmds, last, lastPwr, subAt>>
    /\ UNCHANGED extVars

\* CoreBluetooth: centralManagerDidUpdateState publishes StateChanged.
DeliverState ==
    /\ backend = "corebluetooth"
    /\ ~closed
    /\ pendingSC > 0
    /\ pendingSC' = pendingSC - 1
    /\ log' = Append(log, StateChanged)
    /\ UNCHANGED <<backend, power, closed>>
    /\ UNCHANGED <<scanVars, winVars, callVars, connVars, waited>>
    /\ UNCHANGED extVars

\* CoreBluetooth: a peripheral is discovered by the running scan.
Discover(d) ==
    /\ backend = "corebluetooth"
    /\ nativeScan
    /\ Room
    /\ log' = Append(log, Discovered(d))
    /\ UNCHANGED <<backend, power, pendingSC, closed>>
    /\ UNCHANGED <<scanVars, winVars, callVars, connVars, waited>>
    /\ UNCHANGED extVars

\* --------------------------------------------------- CoreBluetooth: scan()

\* Another caller's scan stream exists and its drop has not begun.
OtherStreamAlive(c) == \E o \in Callers \ {c} : pc[o] \in {"stream", "ended"}

HolderPcs == {"claimed", "subscribed", "stream", "ended", "stopping"}

\* The caller, other than c, that owns the scanning flag (its pc), if any.
Blocker(c) ==
    IF \E o \in Callers \ {c} : pc[o] \in HolderPcs
    THEN pc[CHOOSE o \in Callers \ {c} : pc[o] \in HolderPcs]
    ELSE "none"

\* Mutation of Unavailable: the precondition check lets every call through.
UnavailableNever(p) == FALSE

\* if self.central.state() != CBManagerState::PoweredOn
Unavailable(p) == p # "On"

ScanCheck(c) ==
    /\ backend = "corebluetooth"
    /\ pc[c] = "idle"
    /\ op[c] = "scan"
    /\ pwr' = [pwr EXCEPT ![c] = power]
    /\ blocked' = [blocked EXCEPT ![c] = "none"]
    /\ IF Unavailable(power)
       THEN /\ res' = [res EXCEPT ![c] = "AdapterUnavailable"]
            /\ held' = [held EXCEPT ![c] = OtherStreamAlive(c)]
            /\ pc' = pc
       ELSE /\ res' = [res EXCEPT ![c] = "none"]
            /\ held' = [held EXCEPT ![c] = FALSE]
            /\ pc' = [pc EXCEPT ![c] = "checked"]
    /\ UNCHANGED <<envVars, winVars, connVars, waited, rx, op>>
    /\ UNCHANGED <<scanning, nativeScan, active, watch, phase, dropped>>
    /\ UNCHANGED extVars

\* Mutation of SwapFails: the previous value of the flag is not looked at.
SwapFailsNever(old) == FALSE

\* if self.scanning.swap(true, Ordering::Acquire)
SwapFails(old) == old

\* Mutation of GuardArmedAtSwap: the guard is made before the flag is
\* swapped, so the error return of the swap runs it.
GuardArmedBeforeSwap == TRUE

\* The guard is created (line 158) after the swap (149): a call that leaves
\* at the swap owns no guard.
GuardArmedAtSwap == FALSE

ScanSwap(c) ==
    /\ pc[c] = "checked"
    /\ blocked' = [blocked EXCEPT ![c] = Blocker(c)]
    /\ IF SwapFails(scanning)
       THEN /\ res' = [res EXCEPT ![c] = "AlreadyScanning"]
            /\ held' = [held EXCEPT ![c] = OtherStreamAlive(c)]
            /\ pc' = [pc EXCEPT ![c] = "idle"]
            /\ IF GuardArmedAtSwap
               THEN scanning' = FALSE /\ nativeScan' = FALSE /\ active' = {}
               ELSE scanning' = TRUE /\ UNCHANGED <<nativeScan, active>>
       ELSE /\ scanning' = TRUE
            /\ pc' = [pc EXCEPT ![c] = "claimed"]
            /\ UNCHANGED <<res, held, nativeScan, active>>
    /\ UNCHANGED <<envVars, winVars, connVars, waited, rx, op, pwr>>
    /\ UNCHANGED <<watch, phase, dropped>>
    /\ UNCHANGED extVars

\* The guard is created, then the stream subscribes to the bridge.
ScanSubscribe(c) ==
    /\ pc[c] = "claimed"
    /\ rx' = [rx EXCEPT ![c] = Subscribe]
    /\ pc' = [pc EXCEPT ![c] = "subscribed"]
    /\ UNCHANGED <<envVars, scanVars, winVars, connVars, waited, op, res, pwr>>
    /\ UNCHANGED extVars

\* self.central.scan_for_peripherals_with_services(services, None); Ok(events)
ScanStart(c) ==
    /\ pc[c] = "subscribed"
    /\ nativeScan' = TRUE
    /\ active' = active \cup {c}
    /\ res' = [res EXCEPT ![c] = "Ok"]
    /\ held' = [held EXCEPT ![c] = OtherStreamAlive(c)]
    /\ phase' = [phase EXCEPT ![c] = "fresh"]
    /\ pc' = [pc EXCEPT ![c] = "stream"]
    /\ UNCHANGED <<envVars, winVars, connVars, waited, rx, op, pwr>>
    /\ UNCHANGED <<scanning, watch, dropped, blocked>>
    /\ UNCHANGED extVars

\* Mutation of StreamContinues: the stream goes on whatever the power state.
StreamContinuesAlways(p) == TRUE

\* .take_while(|_| self.central.state() == CBManagerState::PoweredOn)
StreamContinues(p) == p = "On"

\* .filter_map(..): Ok(CentralEvent::Discovered { .. }) => Some(..), _ => None
Yield(r) ==
    IF r.kind = "Item" /\ r.ev.type = "Discovered" THEN <<r.ev>> ELSE <<>>

\* One item of the broadcast stream goes through take_while and filter_map.
ScanPoll(c) ==
    /\ backend = "corebluetooth"
    /\ pc[c] = "stream"
    /\ Recv(c).kind # "Pending"
    /\ rx' = [rx EXCEPT ![c] = Recv(c).next]
    /\ lastPwr' = [lastPwr EXCEPT ![c] = IF Recv(c).kind = "Closed" THEN @ ELSE power]
    /\ seen' = [seen EXCEPT ![c] =
                  IF Recv(c).kind = "Closed" THEN @ ELSE Append(@, Item(Recv(c)))]
    /\ IF Recv(c).kind = "Closed" \/ ~StreamContinues(power)
       THEN /\ pc' = [pc EXCEPT ![c] = "ended"]
            /\ phase' = [phase EXCEPT ![c] = "ended"]
            /\ out' = out
       ELSE /\ pc' = pc
            /\ phase' = [phase EXCEPT ![c] = IF Yield(Recv(c)) # <<>> THEN "mid" ELSE @]
            /\ out' = [out EXCEPT ![c] = @ \o Yield(Recv(c))]
    /\ UNCHANGED <<envVars, winVars, waited, op, res, pwr>>
    /\ UNCHANGED <<scanning, nativeScan, active, watch, dropped, held, blocked>>
    /\ UNCHANGED <<target, cmds, last, subAt, leftWhile>>
    /\ UNCHANGED <<filter, bound, periVars, codecVars>>

\* Mutation of GuardOrder: the flag is released before the scan is stopped.
GuardOrderSwapped == <<"store", "stop">>

\* The statements of the guard's closure, in order:
\* self.central.stop_scan(); self.scanning.store(false, Ordering::Release);
GuardOrder == <<"stop", "store">>

\* Mutation of GuardStore: the guard leaves the flag set.
GuardStoreNothing == scanning

\* self.scanning.store(false, Ordering::Release);
GuardStore == FALSE

\* One statement of the guard: stop_scan() stops the central's scan, whoever
\* started it; store(false) writes the flag.
GuardStmt(stmt) ==
    IF stmt = "stop"
    THEN nativeScan' = FALSE /\ active' = {} /\ scanning' = scanning
    ELSE scanning' = GuardStore /\ UNCHANGED <<nativeScan, active>>

\* The stream is dropped; the guard runs its first statement.
ScanDropStop(c) ==
    /\ backend = "corebluetooth"
    /\ pc[c] \in {"stream", "ended"}
    /\ GuardStmt(GuardOrder[1])
    /\ dropped' = dropped \cup {phase[c]}
    /\ pc' = [pc EXCEPT ![c] = "stopping"]
    /\ out' = [out EXCEPT ![c] = <<>>]
    /\ lastPwr' = [lastPwr EXCEPT ![c] = "none"]
    /\ UNCHANGED <<envVars, winVars, waited, op, res, rx, pwr>>
    /\ UNCHANGED <<watch, phase, held, blocked>>
    /\ UNCHANGED <<target, cmds, last, subAt, leftWhile>>
    /\ seen' = [seen EXCEPT ![c] = <<>>]
    /\ UNCHANGED <<filter, bound, periVars, codecVars>>

\* The guard runs its second statement and is gone.
ScanDropStore(c) ==
    /\ pc[c] = "stopping"
    /\ GuardStmt(GuardOrder[2])
    /\ pc' = [pc EXCEPT ![c] = "idle"]
    /\ UNCHANGED <<envVars, winVars, connVars, waited, op, res, rx, pwr>>
    /\ UNCHANGED <<watch, phase, dropped, held, blocked>>
    /\ UNCHANGED extVars

\* --------------------------------------------------------- Windows: scan()

\* One BluetoothLEAdvertisementReceivedEventArgs of advertiser d.
Advert(d, f) ==
    [type |-> "Adv", dev |-> d, err |-> FALSE, cmd |-> 0,
     services |-> ServicesOf(d), fails |-> f]

Adv(d) == Advert(d, "none")

\* sender.try_send(x): the item is queued unless the channel is full.
TrySend(q, x) == IF Len(q) < WinBuffer + 1 THEN Append(q, x) ELSE q

\* A new watcher with its Received and Stopped handlers is created and
\* started; the stream owns the guard that stops it.
WinScan(c) ==
    /\ backend = "windows"
    /\ pc[c] = "idle"
    /\ op[c] = "scan"
    /\ watch' = [watch EXCEPT ![c] = "started"]
    /\ chan' = [chan EXCEPT ![c] = <<>>]
    /\ res' = [res EXCEPT ![c] = "Ok"]
    /\ held' = [held EXCEPT ![c] = OtherStreamAlive(c)]
    /\ phase' = [phase EXCEPT ![c] = "fresh"]
    /\ pc' = [pc EXCEPT ![c] = "stream"]
    /\ UNCHANGED <<envVars, connVars, waited, handlers, rx, pwr, op>>
    /\ UNCHANGED <<scanning, nativeScan, active, dropped, blocked>>
    /\ out' = [out EXCEPT ![c] = <<>>]
    /\ seen' = [seen EXCEPT ![c] = <<>>]
    /\ UNCHANGED <<filter, bound, periVars, codecVars>>

\* An advertisement is received: the Received handler of every started
\* watcher sends it on its channel.
WinAdvert(d, f) ==
    /\ backend = "windows"
    /\ Room
    /\ \E c \in Callers : watch[c] = "started"
    /\ log' = Append(log, Advert(d, f))
    /\ chan' = [c \in Callers |->
                  IF watch[c] = "started" THEN TrySend(chan[c], Advert(d, f))
                                          ELSE chan[c]]
    /\ UNCHANGED <<backend, power, pendingSC, closed>>
    /\ UNCHANGED <<scanVars, callVars, connVars, waited, handlers>>
    /\ UNCHANGED extVars

\* The watcher stops by itself; its Stopped handler drops the sender.
WinStopped(c) ==
    /\ watch[c] = "started"
    /\ watch' = [watch EXCEPT ![c] = "stopped"]
    /\ UNCHANGED <<envVars, winVars, callVars, connVars, waited>>
    /\ UNCHANGED <<scanning, nativeScan, active, phase, dropped, held, blocked>>
    /\ UNCHANGED extVars

\* .map(..): Err when BluetoothAddress() or BluetoothAddressType() fails.
Parsed(a) == a.fails # "address"

\* Mutation of ServiceMatch: every UUID of the filter must be advertised.
ServiceMatchAll(fs, a) == fs = {} \/ fs \subseteq a.services

\* services.is_empty() || services.iter().any(|x| adv_data.services.contains(x))
ServiceMatch(fs, a) == fs = {} \/ \E x \in fs : x \in a.services

\* Device::from_addr(addr.0, addr.1).await is Ok.
Created(a) == a.fails # "device"

\* What the map / filter_map / then / filter_map chain makes of one received
\* advertisement for a scan with filter fs.
WinYield(fs, a) ==
    IF Parsed(a) /\ ServiceMatch(fs, a) /\ Created(a) THEN <<a>> ELSE <<>>

\* The stream is polled: the next queued advertisement goes through the
\* chain, or the stream ends once the sender is gone and the queue is empty.
WinPoll(c) ==
    /\ backend = "windows"
    /\ pc[c] = "stream"
    /\ chan[c] # <<>> \/ watch[c] = "stopped"
    /\ IF chan[c] # <<>>
       THEN /\ chan' = [chan EXCEPT ![c] = Tail(@)]
            /\ seen' = [seen EXCEPT ![c] = Append(@, Head(chan[c]))]
            /\ out' = [out EXCEPT ![c] = @ \o WinYield(filter[c], Head(chan[c]))]
            /\ phase' = [phase EXCEPT ![c] =
                  IF WinYield(filter[c], Head(chan[c])) # <<>> THEN "mid" ELSE @]
            /\ pc' = pc
       ELSE /\ phase' = [phase EXCEPT ![c] = "ended"]
            /\ pc' = [pc EXCEPT ![c] = "ended"]
            /\ UNCHANGED <<chan, seen, out>>
    /\ UNCHANGED <<envVars, connVars, waited, handlers, op, res, rx, pwr>>
    /\ UNCHANGED <<scanning, nativeScan, active, watch, dropped, held, blocked>>
    /\ UNCHANGED <<filter, bound, periVars, codecVars>>

\* The stream is dropped; the guard runs watcher.Stop().
WinDrop(c) ==
    /\ backend = "windows"
    /\ pc[c] \in {"stream", "ended"}
    /\ watch' = [watch EXCEPT ![c] = "none"]
    /\ chan' = [chan EXCEPT ![c] = <<>>]
    /\ dropped' = dropped \cup {phase[c]}
    /\ pc' = [pc EXCEPT ![c] = "idle"]
    /\ UNCHANGED <<envVars, connVars, waited, handlers, op, res, rx, pwr>>
    /\ UNCHANGED <<scanning, nativeScan, active, phase, held, blocked>>
    /\ out' = [out EXCEPT ![c] = <<>>]
    /\ seen' = [seen EXCEPT ![c] = <<>>]
    /\ UNCHANGED <<filter, bound, periVars, codecVars>>

\* --------------------- CoreBluetooth: connect_device / disconnect_device

\* The precondition check of connect_device / disconnect_device.
ConnCheck(c) ==
    /\ op[c] \in {"connect", "disconnect"}
    /\ pc[c] = "idle"
    /\ IF Unavailable(power)
       THEN /\ res' = [res EXCEPT ![c] = "AdapterUnavailable"]
            /\ pc' = [pc EXCEPT ![c] = "done"]
       ELSE /\ res' = res
            /\ pc' = [pc EXCEPT ![c] = "step1"]
    /\ UNCHANGED <<envVars, scanVars, winVars, connVars, waited, op, rx, pwr>>
    /\ UNCHANGED extVars

\* Mutation of ConnStepOrder: the native command is issued first.
ConnStepOrderSwapped == <<"command", "subscribe">>

\* let mut events = BroadcastStream::new(self.sender.subscribe());
\* self.central.connect_peripheral(..) / cancel_peripheral_connection(..)
ConnStepOrder == <<"subscribe", "command">>

ConnStmt(c) == IF pc[c] = "step1" THEN ConnStepOrder[1] ELSE ConnStepOrder[2]

ConnStep(c) ==
    /\ pc[c] \in {"step1", "step2"}
    /\ pc' = [pc EXCEPT ![c] = IF @ = "step1" THEN "step2" ELSE "waiting"]
    /\ IF ConnStmt(c) = "subscribe"
       THEN /\ rx' = [rx EXCEPT ![c] = Subscribe]
            /\ subAt' = [subAt EXCEPT ![c] = Len(log)]
            /\ cmds' = cmds
       ELSE /\ cmds' = cmds \cup {c}
            /\ UNCHANGED <<rx, subAt>>
    /\ UNCHANGED <<envVars, scanVars, winVars, waited, op, res, pwr>>
    /\ UNCHANGED <<target, last, lastPwr, leftWhile>>
    /\ UNCHANGED extVars

\* The native layer answers caller c's command; the delegate publishes the
\* event.
Answers(c) ==
    IF op[c] = "connect"
    THEN {Ev("Connect", target[c], FALSE, c)}
           \cup {Ev("ConnectFailed", target[c], e, c) : e \in BOOLEAN}
    ELSE {Ev("Disconnect", target[c], e, c) : e \in BOOLEAN}

NativeRespond(c) ==
    /\ c \in cmds
    /\ ~closed
    /\ Room
    /\ \E ev \in Answers(c) : log' = Append(log, ev)
    /\ cmds' = cmds \ {c}
    /\ UNCHANGED <<backend, power, pendingSC, closed>>
    /\ UNCHANGED <<scanVars, winVars, callVars, waited>>
    /\ UNCHANGED <<target, last, lastPwr, subAt, leftWhile>>
    /\ UNCHANGED extVars

\* A peripheral disconnects without a command of this adapter.
NativeDisconnect(d, e) ==
    /\ backend = "corebluetooth"
    /\ ~closed
    /\ Room
    /\ log' = Append(log, Ev("Disconnect", d, e, 0))
    /\ UNCHANGED <<backend, power, pendingSC, closed>>
    /\ UNCHANGED <<scanVars, winVars, callVars, connVars, waited>>
    /\ UNCHANGED extVars

\* Mutation of StillUnavailable: the loop does not look at the power state.
StillUnavailableNever(p) == FALSE

\* Inside the loop: if self.central.state() != CBManagerState::PoweredOn
StillUnavailable(p) == p # "On"

\* Mutation of ConnectOutcome: the identity of the peripheral is not compared.
ConnectOutcomeAnyDevice(d, r) ==
    IF r.kind = "Item" /\ r.ev.type = "Connect" THEN "Ok"
    ELSE IF r.kind = "Item" /\ r.ev.type = "ConnectFailed"
         THEN (IF r.ev.err THEN "NativeError" ELSE "ConnectionFailed")
    ELSE "continue"

\* Mutation of ConnectOutcome: the native error of the event is discarded.
ConnectOutcomeNoWrap(d, r) ==
    IF r.kind = "Item" /\ r.ev.type = "Connect" /\ r.ev.dev = d THEN "Ok"
    ELSE IF r.kind = "Item" /\ r.ev.type = "ConnectFailed" /\ r.ev.dev = d
         THEN "ConnectionFailed"
    ELSE "continue"

\* The match of connect_device on one stream item.
ConnectOutcome(d, r) ==
    IF r.kind = "Item" /\ r.ev.type = "Connect" /\ r.ev.dev = d THEN "Ok"
    ELSE IF r.kind = "Item" /\ r.ev.type = "ConnectFailed" /\ r.ev.dev = d
         THEN (IF r.ev.err THEN "NativeError" ELSE "ConnectionFailed")
    ELSE "continue"

\* The match of disconnect_device on one stream item.
DisconnectOutcome(d, r) ==
    IF r.kind = "Item" /\ r.ev.type = "Disconnect" /\ r.ev.dev = d
    THEN (IF r.ev.err THEN "NativeError" ELSE "ConnectionFailed")
    ELSE "continue"

Outcome(c, r) ==
    IF op[c] = "connect" THEN ConnectOutcome(target[c], r)
                         ELSE DisconnectOutcome(target[c], r)

\* Mutation of Advance: the calls read from one shared queue, so an item
\* taken by one call is gone for the others.
AdvanceShared(c, r) ==
    [o \in Callers |-> IF rx[o] # 0 /\ rx[o] < r.next THEN r.next ELSE rx[o]]

\* events.next() moves the cursor of the call's own Receiver only.
Advance(c, r) == [rx EXCEPT ![c] = r.next]

\* while let Some(event) = events.next().await { .. }  Ok(())
ConnNext(c) ==
    /\ pc[c] = "waiting"
    /\ Recv(c).kind # "Pending"
    /\ rx' = Advance(c, Recv(c))
    /\ last' = [last EXCEPT ![c] = Item(Recv(c))]
    /\ seen' = [seen EXCEPT ![c] = IF Recv(c).kind = "Closed" THEN @ ELSE Append(@, Item(Recv(c)))]
    /\ IF Recv(c).kind = "Closed"
       THEN /\ res' = [res EXCEPT ![c] = "Ok"]
            /\ pc' = [pc EXCEPT ![c] = "done"]
            /\ lastPwr' = lastPwr
       ELSE /\ lastPwr' = [lastPwr EXCEPT ![c] = power]
            /\ IF StillUnavailable(power)
               THEN /\ res' = [res EXCEPT ![c] = "AdapterUnavailable"]
                    /\ pc' = [pc EXCEPT ![c] = "done"]
               ELSE IF Outcome(c, Recv(c)) = "continue"
               THEN UNCHANGED <<res, pc>>
               ELSE /\ res' = [res EXCEPT ![c] = Outcome(c, Recv(c))]
                    /\ pc' = [pc EXCEPT ![c] = "done"]
    /\ UNCHANGED <<envVars, scanVars, winVars, waited, op, pwr>>
    /\ UNCHANGED <<target, cmds, subAt, leftWhile>>
    /\ UNCHANGED <<out, filter, bound, periVars, codecVars>>

\* Every Sender of the broadcast channel is dropped.
CloseSender ==
    /\ ~closed
    /\ closed' = TRUE
    /\ UNCHANGED <<backend, power, pendingSC, log>>
    /\ UNCHANGED <<scanVars, winVars, callVars, connVars, waited>>
    /\ UNCHANGED extVars

\* Error::from_nserror(e): a connection-failure error that carries e.
FromNsError == [kind |-> "ConnectionFailed", native |-> TRUE]

\* The bluest Error a call result stands for: its kind and whether it wraps
\* a native error.
ErrorOf(r) ==
    IF r = "NativeError" THEN FromNsError ELSE [kind |-> r, native |-> FALSE]

\* ------------------------------------------- CoreBluetooth: wait_available

\* The filter_map of events() on one item of the broadcast stream; p is the
\* power state read when the item is mapped.
AdapterEventOf(r, p) ==
    CASE r.kind = "Closed" -> "End"
      [] r.kind = "Lagged" -> "Internal"
      [] r.kind = "Item" /\ r.ev.type = "StateChanged" ->
            (IF p = "On" THEN "Available" ELSE "Unavailable")
      [] OTHER -> "Filtered"

\* Mutation of NeedsWait: the call waits for an event whatever the state.
NeedsWaitAlways(p) == TRUE

\* if self.central.state() != CBManagerState::PoweredOn
NeedsWait(p) == p # "On"

\* let events = self.events(); creates a future, which does nothing until it
\* is awaited. The first statement that runs is the state check.
WaitCheck(c) ==
    /\ backend = "corebluetooth"
    /\ op[c] = "wait"
    /\ pc[c] = "idle"
    /\ pwr' = [pwr EXCEPT ![c] = power]
    /\ IF NeedsWait(power)
       THEN /\ pc' = [pc EXCEPT ![c] = "subscribing"]
            /\ res' = res
       ELSE /\ pc' = [pc EXCEPT ![c] = "done"]
            /\ res' = [res EXCEPT ![c] = "Ok"]
    /\ UNCHANGED <<envVars, scanVars, winVars, connVars, waited, op, rx>>
    /\ UNCHANGED extVars

\* events.await?: events() runs now and subscribes to the bridge.
WaitSubscribe(c) ==
    /\ pc[c] = "subscribing"
    /\ rx' = [rx EXCEPT ![c] = Subscribe]
    /\ subAt' = [subAt EXCEPT ![c] = Len(log)]
    /\ waited' = [waited EXCEPT ![c] = TRUE]
    /\ pc' = [pc EXCEPT ![c] = "waiting"]
    /\ UNCHANGED <<envVars, scanVars, winVars, op, res, pwr>>
    /\ UNCHANGED <<target, cmds, last, lastPwr, leftWhile>>
    /\ UNCHANGED extVars

\* .skip_while(..).next().await.ok_or_else(..)?? on one item of the stream.
WaitNext(c) ==
    /\ backend = "corebluetooth"
    /\ op[c] = "wait"
    /\ pc[c] = "waiting"
    /\ Recv(c).kind # "Pending"
    /\ rx' = [rx EXCEPT ![c] = Recv(c).next]
    /\ last' = [last EXCEPT ![c] = Item(Recv(c))]
    /\ lastPwr' = [lastPwr EXCEPT ![c] = power]
    /\ IF AdapterEventOf(Recv(c), power) \in {"End", "Internal"}
       THEN /\ res' = [res EXCEPT ![c] = "Internal"]
            /\ pc' = [pc EXCEPT ![c] = "done"]
       ELSE IF AdapterEventOf(Recv(c), power) = "Available"
       THEN /\ res' = [res EXCEPT ![c] = "Ok"]
            /\ pc' = [pc EXCEPT ![c] = "done"]
       ELSE UNCHANGED <<res, pc>>
    /\ UNCHANGED <<envVars, scanVars, winVars, waited, op, pwr>>
    /\ UNCHANGED <<target, cmds, subAt, leftWhile>>
    /\ UNCHANGED extVars

\* ------------------------------------------------- Windows: wait_available

Available == Ev("Available", 0, FALSE, 0)
NotAvailable == Ev("Unavailable", 0, FALSE, 0)

\* The radio's StateChanged event is raised: every registered handler reads
\* the radio state and sends the AdapterEvent on its channel.
WinDeliverState ==
    /\ backend = "windows"
    /\ pendingSC > 0
    /\ pendingSC' = pendingSC - 1
    /\ log' = Append(log, StateChanged)
    /\ chan' = [c \in Callers |->
                  IF c \in handlers
                  THEN TrySend(chan[c], IF power = "On" THEN Available ELSE NotAvailable)
                  ELSE chan[c]]
    /\ UNCHANGED <<backend, power, closed, handlers>>
    /\ UNCHANGED <<scanVars, callVars, connVars, waited>>
    /\ UNCHANGED extVars

\* Mutation of Unregister: the guard leaves the handler registered.
UnregisterNothing(hs, c) == hs

\* The guard of the events() stream: radio.RemoveStateChanged(token)
Unregister(hs, c) == hs \ {c}

\* let events = self.events().await?: the channel is created and the
\* StateChanged handler registered.
WinWaitRegister(c) ==
    /\ backend = "windows"
    /\ op[c] = "wait"
    /\ pc[c] = "idle"
    /\ handlers' = handlers \cup {c}
    /\ chan' = [chan EXCEPT ![c] = <<>>]
    /\ pc' = [pc EXCEPT ![c] = "registered"]
    /\ subAt' = [subAt EXCEPT ![c] = Len(log)]
    /\ seen' = [seen EXCEPT ![c] = <<>>]
    /\ UNCHANGED <<envVars, scanVars, waited, op, res, rx, pwr>>
    /\ UNCHANGED <<target, cmds, last, lastPwr, leftWhile>>
    /\ UNCHANGED <<out, filter, bound, periVars, codecVars>>

\* if state != RadioState::On
WinNeedsWait(p) == p # "On"

\* let state = radio.State()?; when the call returns, the stream is dropped
\* and its guard removes the handler.
WinWaitCheck(c) ==
    /\ pc[c] = "registered"
    /\ pwr' = [pwr EXCEPT ![c] = power]
    /\ IF WinNeedsWait(power)
       THEN /\ pc' = [pc EXCEPT ![c] = "waiting"]
            /\ waited' = [waited EXCEPT ![c] = TRUE]
            /\ UNCHANGED <<res, handlers, chan>>
       ELSE /\ pc' = [pc EXCEPT ![c] = "done"]
            /\ res' = [res EXCEPT ![c] = "Ok"]
            /\ handlers' = Unregister(handlers, c)
            /\ chan' = [chan EXCEPT ![c] = <<>>]
            /\ waited' = waited
    /\ UNCHANGED <<envVars, scanVars, connVars, op, rx>>
    /\ UNCHANGED extVars

\* .skip_while(..).next().await on the next queued AdapterEvent.
WinWaitNext(c) ==
    /\ backend = "windows"
    /\ op[c] = "wait"
    /\ pc[c] = "waiting"
    /\ chan[c] # <<>>
    /\ last' = [last EXCEPT ![c] = [kind |-> "Item", ev |-> Head(chan[c])]]
    /\ IF Head(chan[c]) = Available
       THEN /\ pc' = [pc EXCEPT ![c] = "done"]
            /\ res' = [res EXCEPT ![c] = "Ok"]
            /\ handlers' = Unregister(handlers, c)
            /\ chan' = [chan EXCEPT ![c] = <<>>]
       ELSE /\ chan' = [chan EXCEPT ![c] = Tail(@)]
            /\ UNCHANGED <<pc, res, handlers>>
    /\ seen' = [seen EXCEPT ![c] = Append(@, Head(chan[c]))]
    /\ UNCHANGED <<envVars, scanVars, waited, op, rx, pwr>>
    /\ UNCHANGED <<target, cmds, lastPwr, subAt, leftWhile>>
    /\ UNCHANGED <<out, filter, bound, periVars, codecVars>>

\* let state = radio.State()?; fails: the call returns the error, the
\* stream is dropped and its guard removes the handler.
WinWaitStateFails(c) ==
    /\ op[c] = "wait"
    /\ pc[c] = "registered"
    /\ pc' = [pc EXCEPT ![c] = "done"]
    /\ res' = [res EXCEPT ![c] = "Error"]
    /\ handlers' = Unregister(handlers, c)
    /\ chan' = [chan EXCEPT ![c] = <<>>]
    /\ UNCHANGED <<envVars, scanVars, connVars, waited, op, rx, pwr>>
    /\ UNCHANGED extVars

\* ---------------------------------------------------------------- events()

\* CoreBluetooth: events() subscribes to the bridge and returns the stream.
EventsOpen(c) ==
    /\ backend = "corebluetooth"
    /\ op[c] = "events"
    /\ pc[c] = "idle"
    /\ rx' = [rx EXCEPT ![c] = Subscribe]
    /\ subAt' = [subAt EXCEPT ![c] = Len(log)]
    /\ res' = [res EXCEPT ![c] = "Ok"]
    /\ pc' = [pc EXCEPT ![c] = "stream"]
    /\ UNCHANGED <<envVars, scanVars, winVars, waited, op, pwr>>
    /\ UNCHANGED <<target, cmds, last, lastPwr, leftWhile>>
    /\ UNCHANGED extVars

\* CoreBluetooth: the stream is polled; the filter_map maps one item of the
\* broadcast stream, reading the central's state as it does.
EventsNext(c) ==
    /\ backend = "corebluetooth"
    /\ op[c] = "events"
    /\ pc[c] = "stream"
    /\ Recv(c).kind # "Pending"
    /\ rx' = [rx EXCEPT ![c] = Recv(c).next]
    /\ last' = [last EXCEPT ![c] = Item(Recv(c))]
    /\ lastPwr' = [lastPwr EXCEPT ![c] = power]
    /\ seen' = [seen EXCEPT ![c] =
                  IF Recv(c).kind = "Closed" THEN @ ELSE Append(@, Item(Recv(c)))]
    /\ IF AdapterEventOf(Recv(c), power) = "End"
       THEN /\ pc' = [pc EXCEPT ![c] = "ended"]
            /\ out' = out
       ELSE /\ pc' = pc
            /\ out' = [out EXCEPT ![c] =
                         IF AdapterEventOf(Recv(c), power) = "Filtered"
                         THEN @ ELSE Append(@, AdapterEventOf(Recv(c), power))]
    /\ UNCHANGED <<envVars, scanVars, winVars, waited, op, res, pwr>>
    /\ UNCHANGED <<target, cmds, subAt, leftWhile>>
    /\ UNCHANGED <<filter, bound, periVars, codecVars>>

\* Windows: events() creates the channel, registers the StateChanged handler
\* and returns the stream, which owns the guard.
WinEventsOpen(c) ==
    /\ backend = "windows"
    /\ op[c] = "events"
    /\ pc[c] = "idle"
    /\ handlers' = handlers \cup {c}
    /\ chan' = [chan EXCEPT ![c] = <<>>]
    /\ subAt' = [subAt EXCEPT ![c] = Len(log)]
    /\ res' = [res EXCEPT ![c] = "Ok"]
    /\ pc' = [pc EXCEPT ![c] = "stream"]
    /\ UNCHANGED <<envVars, scanVars, waited, op, rx, pwr>>
    /\ UNCHANGED <<target, cmds, last, lastPwr, leftWhile>>
    /\ UNCHANGED extVars

\* Windows: the stream is polled and yields the next queued AdapterEvent.
WinEventsNext(c) ==
    /\ backend = "windows"
    /\ op[c] = "events"
    /\ pc[c] = "stream"
    /\ chan[c] # <<>>
    /\ chan' = [chan EXCEPT ![c] = Tail(@)]
    /\ last' = [last EXCEPT ![c] = [kind |-> "Item", ev |-> Head(chan[c])]]
    /\ seen' = [seen EXCEPT ![c] = Append(@, Head(chan[c]))]
    /\ out' = [out EXCEPT ![c] = Append(@, Head(chan[c]).type)]
    /\ UNCHANGED <<envVars, scanVars, callVars, waited, handlers>>
    /\ UNCHANGED <<target, cmds, lastPwr, subAt, leftWhile>>
    /\ UNCHANGED <<filter, bound, periVars, codecVars>>

\* The stream returned by events() is dropped; on Windows its guard removes
\* the handler.
EventsDrop(c) ==
    /\ op[c] = "events"
    /\ pc[c] \in {"stream", "ended"}
    /\ pc' = [pc EXCEPT ![c] = "done"]
    /\ handlers' = IF backend = "windows" THEN Unregister(handlers, c) ELSE handlers
    /\ chan' = [chan EXCEPT ![c] = <<>>]
    /\ UNCHANGED <<envVars, scanVars, connVars, waited, op, res, rx, pwr>>
    /\ UNCHANGED extVars

\* ------------------------------------------------- the advertisement codec

NoInput == [kind |-> "none"]
NoOutput == [done |-> FALSE, bytes |-> <<>>, map |-> {}, decoded |-> <<>>]

\* The sequences over S of length at most n.
SeqsUpTo(S, n) == UNION {[1..k -> S] : k \in 0..n}

\* u16::to_le_bytes
ToLeBytes(x) == <<x % 256, x \div 256>>

\* let c = company_id.to_le_bytes(); extend_from_slice(&[c[1], c[0]]);
\* extend_from_slice(&manufacturer_data.data). Rust's c[0] is the first byte.
CombinedData(m) ==
    LET c == ToLeBytes(m.company_id)
    IN  <<c[2], c[1]>> \o m.data

\* start_advertising builds the kCBAdvDataManufacturerData value.
EncodeManufacturerData ==
    /\ codecIn.kind = "manufacturer"
    /\ ~codecOut.done
    /\ codecOut' = [codecOut EXCEPT !.done = TRUE, !.bytes = CombinedData(codecIn)]
    /\ UNCHANGED <<envVars, scanVars, winVars, callVars, connVars, waited>>
    /\ UNCHANGED <<out, filter, bound, periVars, seen, codecIn, codecPos>>

\* Mutation of KindOf: the 128-bit section type is read as a 32-bit one.
KindOfNo128(t) ==
    CASE t = 22 -> "U16"
      [] t = 32 -> "U32"
      [] t = 33 -> "U32"
      [] OTHER -> "None"

\* match data.DataType()? { 0x16 => U16, 0x20 => U32, 0x21 => U128, _ => None }
KindOf(t) ==
    CASE t = 22 -> "U16"
      [] t = 32 -> "U32"
      [] t = 33 -> "U128"
      [] OTHER -> "None"

\* The bytes read_uuid takes from the reader for each UuidKind.
UuidLen(k) == CASE k = "U16" -> 2 [] k = "U32" -> 4 [] k = "U128" -> 16

\* read_uuid(&reader, kind): Err when the buffer is shorter than the UUID;
\* otherwise the UUID made of the bytes read, and the reader is left at the
\* byte after them.
ReadUuid(data, k) ==
    IF Len(data) < UuidLen(k)
    THEN [ok |-> FALSE, uuid |-> <<>>, rest |-> <<>>]
    ELSE [ok |-> TRUE,
          uuid |-> [kind |-> k, bytes |-> SubSeq(data, 1, UuidLen(k))],
          rest |-> SubSeq(data, UuidLen(k) + 1, Len(data))]

\* service_data.insert(uuid, value)
Insert(map, k, v) == {e \in map : e.key # k} \cup {[key |-> k, value |-> v]}

\* The body of the loop of to_service_data on one section, with the map
\* built so far: data.DataType()? and, for a recognized type, data.Data()?
\* leave the function with Err; a section whose UUID cannot be read is
\* skipped.
AfterSection(map, sec) ==
    IF sec.fails = "type" THEN [ok |-> FALSE, map |-> {}]
    ELSE IF KindOf(sec.type) = "None" THEN [ok |-> TRUE, map |-> map]
    ELSE IF sec.fails = "data" THEN [ok |-> FALSE, map |-> {}]
    ELSE IF ReadUuid(sec.data, KindOf(sec.type)).ok
         THEN [ok |-> TRUE,
               map |-> Insert(map, ReadUuid(sec.data, KindOf(sec.type)).uuid,
                                   ReadUuid(sec.data, KindOf(sec.type)).rest)]
    ELSE [ok |-> TRUE, map |-> map]

\* One iteration of the loop of to_service_data; an Err return ends the
\* decoding, and the caller's unwrap_or_default() makes it the empty map.
DecodeSection ==
    /\ codecIn.kind = "sections"
    /\ ~codecOut.done
    /\ codecPos < Len(codecIn.sections)
    /\ codecPos' = codecPos + 1
    /\ LET r == AfterSection(codecOut.map, codecIn.sections[codecPos + 1])
       IN  codecOut' = [codecOut EXCEPT
                !.map = r.map,
                !.done = ~r.ok \/ codecPos + 1 = Len(codecIn.sections)]
    /\ UNCHANGED <<envVars, scanVars, winVars, callVars, connVars, waited>>
    /\ UNCHANGED <<out, filter, bound, periVars, seen, codecIn>>

\* to_service_data(&data_sections).unwrap_or_default() on the sections from
\* position i on, with the map built so far.
RECURSIVE ServiceDataFrom(_, _, _)
ServiceDataFrom(ss, i, map) ==
    IF i > Len(ss) THEN map
    ELSE IF ~AfterSection(map, ss[i]).ok THEN {}
    ELSE ServiceDataFrom(ss, i + 1, AfterSection(map, ss[i]).map)

ToServiceData(ss) == ServiceDataFrom(ss, 1, {})

\* impl From<BluetoothLEAdvertisementReceivedEventArgs> for AdvertisementData:
\* p holds what each getter of the event arguments returns.
AdvertisementDataFrom(p) ==
    [is_connectable |-> p.connectable = "yes",
     tx_power_level |-> IF p.tx \in {"fail", "novalue"} THEN "None" ELSE p.tx,
     local_name |->
        IF p.adv = "ok" /\ p.name \notin {"fail", ""} THEN p.name ELSE "None",
     manufacturer_data |->
        IF p.adv = "ok" /\ p.manu \notin {"fail", "empty", "bad"} THEN p.manu
                                                                 ELSE "None",
     services |-> IF p.adv = "ok" /\ p.uuids.ok THEN p.uuids.list ELSE <<>>,
     service_data |->
        IF p.adv = "ok" /\ p.sections.ok THEN ToServiceData(p.sections.list)
                                         ELSE {}]

\* AdvertisementData::from(event_args) is applied to the received payload.
DecodeAdvertisement ==
    /\ codecIn.kind = "payload"
    /\ ~codecOut.done
    /\ codecOut' = [codecOut EXCEPT
            !.decoded = Append(@, AdvertisementDataFrom(codecIn)),
            !.done = Len(codecOut.decoded) = 1]
    /\ UNCHANGED <<envVars, scanVars, winVars, callVars, connVars, waited>>
    /\ UNCHANGED <<out, filter, bound, periVars, seen, codecIn, codecPos>>

\* ------------------------------------------------------ connected devices

\* A device connects to, or disconnects from, the system.
ConnectionChange(d) ==
    /\ connected' = IF d \in connected THEN connected \ {d} ELSE connected \cup {d}
    /\ UNCHANGED <<envVars, scanVars, winVars, callVars, connVars, waited>>
    /\ UNCHANGED <<out, filter, bound, seen, codecVars, found, advert>>

\* The orders in which the elements of a finite set can be listed.
Orderings(S) ==
    {o \in [1..Cardinality(S) -> S] : \A i, j \in 1..Cardinality(S) : o[i] = o[j] => i = j}

\* FindAllAsync(.., AssociationEndpointService) with the combined filter: one
\* endpoint service per service in fs of each device in devs.
EndpointServices(devs, fs) ==
    {p \in devs \X fs : p[2] \in GattServices(p[1])}

\* Mutation of DeviceIds: one id is kept per matching service.
DeviceIdsPerService(svcs) == {[i \in DOMAIN o |-> o[i][1]] : o \in Orderings(svcs)}

\* device_ids.insert(id) for each service, into a HashSet; then one Device is
\* pushed per id, in the order the set iterates.
DeviceIds(svcs) == Orderings({p[1] : p \in svcs})

\* Windows: assert!(!services.is_empty()); then the connected devices are
\* looked up, and the call returns Ok(Vec::new()) if there is none.
WinEnumConnected(c) ==
    /\ backend = "windows"
    /\ op[c] = "enum"
    /\ pc[c] = "idle"
    /\ IF filter[c] = {}
       THEN /\ res' = [res EXCEPT ![c] = "Panic"]
            /\ pc' = [pc EXCEPT ![c] = "done"]
            /\ found' = found
       ELSE /\ found' = [found EXCEPT ![c] = connected]
            /\ res' = [res EXCEPT ![c] = IF connected = {} THEN "Ok" ELSE @]
            /\ pc' = [pc EXCEPT ![c] = IF connected = {} THEN "done" ELSE "services"]
    /\ UNCHANGED <<envVars, scanVars, winVars, connVars, waited, op, rx, pwr>>
    /\ UNCHANGED <<out, filter, bound, seen, codecVars, connected, advert>>

\* Windows: the matching services of those devices are looked up, their
\* device ids collected and the devices built.
WinEnumServices(c) ==
    /\ pc[c] = "services"
    /\ \E ids \in DeviceIds(EndpointServices(found[c], filter[c])) :
           out' = [out EXCEPT ![c] = ids]
    /\ res' = [res EXCEPT ![c] = "Ok"]
    /\ pc' = [pc EXCEPT ![c] = "done"]
    /\ UNCHANGED <<envVars, scanVars, winVars, connVars, waited, op, rx, pwr>>
    /\ UNCHANGED <<filter, bound, seen, codecVars, periVars>>

\* Windows: connected_devices() looks up the connected devices and builds
\* each of them.
WinEnumAll(c) ==
    /\ backend = "windows"
    /\ op[c] = "enumall"
    /\ pc[c] = "idle"
    /\ found' = [found EXCEPT ![c] = connected]
    /\ \E ids \in Orderings(connected) : out' = [out EXCEPT ![c] = ids]
    /\ res' = [res EXCEPT ![c] = "Ok"]
    /\ pc' = [pc EXCEPT ![c] = "done"]
    /\ UNCHANGED <<envVars, scanVars, winVars, connVars, waited, op, rx, pwr>>
    /\ UNCHANGED <<filter, bound, seen, codecVars, connected, advert>>

\* retrieve_connected_peripherals_with_services(services): the connected
\* peripherals that expose a service of the list; all of them without a list.
RetrieveConnected(fs) ==
    IF fs = {} THEN connected
    ELSE {d \in connected : GattServices(d) \cap fs # {}}

\* CoreBluetooth: connected_devices(services) makes one Device per
\* peripheral the central returns.
CbEnum(c) ==
    /\ backend = "corebluetooth"
    /\ op[c] = "enum"
    /\ pc[c] = "idle"
    /\ found' = [found EXCEPT ![c] = connected]
    /\ \E ids \in Orderings(RetrieveConnected(filter[c])) :
           out' = [out EXCEPT ![c] = ids]
    /\ res' = [res EXCEPT ![c] = "Ok"]
    /\ pc' = [pc EXCEPT ![c] = "done"]
    /\ UNCHANGED <<envVars, scanVars, winVars, connVars, waited, op, rx, pwr>>
    /\ UNCHANGED <<filter, bound, seen, codecVars, connected, advert>>

\* -------------------------------------------------- the advertiser role

\* AdvertisementImpl::new(): the advertiser holds no peripheral manager /
\* publisher (own), no native advertisement is on air (that of the
\* advertiser's own handle, that of the guard's), no guard was handed out,
\* start_advertising has not returned, stop_advertising was not called after
\* it.
NoAdvertiser ==
    [own |-> FALSE, onAir |-> {}, guard |-> "none", res |-> "none", stopped |-> FALSE]

\* CoreBluetooth: start_advertising(mut self, data) takes the advertiser,
\* starts advertising on its peripheral manager and moves it into the guard.
\* Windows: start_advertising(&mut self, data) starts a new publisher and
\* puts it in a new AdvertisementImpl inside the guard; without manufacturer
\* data it returns Err("no data to send.").
StartAdvertising ==
    /\ advert.res = "none"
    /\ IF backend = "corebluetooth" \/ codecIn.kind = "manufacturer"
       THEN advert' = [advert EXCEPT !.onAir = @ \cup {"guard"},
                                     !.guard = "held", !.res = "Ok"]
       ELSE advert' = [advert EXCEPT !.res = "Err"]
    /\ IF backend = "corebluetooth" /\ codecIn.kind = "manufacturer"
       THEN codecOut' = [codecOut EXCEPT !.done = TRUE, !.bytes = CombinedData(codecIn)]
       ELSE codecOut' = codecOut
    /\ UNCHANGED <<envVars, scanVars, winVars, callVars, connVars, waited>>
    /\ UNCHANGED <<out, filter, bound, seen, codecIn, codecPos, connected, found>>

\* Windows: advertise(data, advertise_duration) stops and forgets the
\* advertiser's publisher, makes and starts a new one, and with a duration
\* stops and forgets it again after the sleep.
Advertise(timed) ==
    /\ backend = "windows"
    /\ advert' = [advert EXCEPT
            !.own = ~timed,
            !.onAir = IF timed THEN @ \ {"own"} ELSE @ \cup {"own"}]
    /\ UNCHANGED <<envVars, scanVars, winVars, callVars, connVars, waited>>
    /\ UNCHANGED <<out, filter, bound, seen, codecVars, connected, found>>

\* stop_advertising(&mut self) on the advertiser the caller holds: it stops
\* the peripheral manager / publisher that advertiser holds, if any, and
\* forgets it. On CoreBluetooth the caller holds it until start_advertising
\* takes it.
StopAdvertising ==
    /\ backend = "windows" \/ advert.guard = "none"
    /\ advert' = [advert EXCEPT
            !.onAir = IF advert.own THEN @ \ {"own"} ELSE @,
            !.own = FALSE,
            !.stopped = @ \/ advert.res = "Ok"]
    /\ UNCHANGED <<envVars, scanVars, winVars, callVars, connVars, waited>>
    /\ UNCHANGED <<out, filter, bound, seen, codecVars, connected, found>>

\* Drop of AdvertisingGuard: it stops the advertisement of the
\* AdvertisementImpl it owns; then AdvertisementImpl::drop prints a line.
GuardDropStops(onAir) == onAir \ {"guard"}

DropGuard ==
    /\ advert.guard = "held"
    /\ advert' = [advert EXCEPT !.guard = "dropped", !.onAir = GuardDropStops(@)]
    /\ UNCHANGED <<envVars, scanVars, winVars, callVars, connVars, waited>>
    /\ UNCHANGED <<out, filter, bound, seen, codecVars, connected, found>>

\* ------------------------------------------------------------------- specs

InitCommon ==
    /\ power \in {"On", "Off"}
    /\ pendingSC = 0
    /\ log = <<>>
    /\ closed = FALSE
    /\ scanning = FALSE
    /\ nativeScan = FALSE
    /\ active = {}
    /\ watch = [c \in Callers |-> "none"]
    /\ chan = [c \in Callers |-> <<>>]
    /\ handlers = {}
    /\ pc = [c \in Callers |-> "idle"]
    /\ target \in {t \in [Callers -> Devices \cup {0}] :
                    \A c \in Callers :
                        (t[c] # 0) <=> (op[c] \in {"connect", "disconnect"})}
    /\ res = [c \in Callers |-> "none"]
    /\ rx = [c \in Callers |-> 0]
    /\ cmds = {}
    /\ pwr = [c \in Callers |-> "none"]
    /\ last = [c \in Callers |-> NoItem]
    /\ lastPwr = [c \in Callers |-> "none"]
    /\ phase = [c \in Callers |-> "none"]
    /\ dropped = {}
    /\ held = [c \in Callers |-> FALSE]
    /\ blocked = [c \in Callers |-> "none"]
    /\ waited = [c \in Callers |-> FALSE]
    /\ subAt = [c \in Callers |-> 0]
    /\ leftWhile = {}
    /\ out = [c \in Callers |-> <<>>]
    /\ seen = [c \in Callers |-> <<>>]
    /\ codecPos = 0
    /\ codecOut = NoOutput
    /\ found = [c \in Callers |-> {}]
    /\ advert = NoAdvertiser

InitScan ==
    /\ codecIn = NoInput
    /\ bound = MaxEvents
    /\ connected = {}
    /\ filter = [c \in Callers |-> {}]
    /\ backend \in {"corebluetooth", "windows"}
    /\ op = [c \in Callers |-> "scan"]
    /\ InitCommon

NextScan ==
    \/ backend = "corebluetooth" /\ PowerToggle
    \/ DeliverState
    \/ \E d \in Advertisers : Discover(d)
    \/ \E d \in Advertisers : WinAdvert(d, "none")
    \/ \E c \in Callers :
        \/ ScanCheck(c)
        \/ ScanSwap(c)
        \/ ScanSubscribe(c)
        \/ ScanStart(c)
        \/ ScanPoll(c)
        \/ ScanDropStop(c)
        \/ ScanDropStore(c)
        \/ WinScan(c)
        \/ WinStopped(c)
        \/ WinPoll(c)
        \/ WinDrop(c)

SpecScan == InitScan /\ [][NextScan]_vars

\* The CoreBluetooth scans, starting on a powered-on adapter, under fair
\* scheduling: the dispatch queue runs every callback it holds, and a stream
\* with an item ready is polled unless it is dropped.
InitScanCb == InitScan /\ backend = "corebluetooth" /\ power = "On"

NextScanCb ==
    \/ PowerToggle
    \/ DeliverState
    \/ \E d \in Advertisers : Discover(d)
    \/ \E c \in Callers :
        \/ ScanCheck(c)
        \/ ScanSwap(c)
        \/ ScanSubscribe(c)
        \/ ScanStart(c)
        \/ ScanPoll(c)
        \/ ScanDropStop(c)
        \/ ScanDropStore(c)

FairScan ==
    /\ WF_vars(DeliverState)
    /\ \A c \in Callers : WF_vars(ScanPoll(c))

SpecScanFair == InitScanCb /\ [][NextScanCb]_vars /\ FairScan

\* One caller's scans that filter by service, among advertisers of different
\* services and advertisements whose address or device cannot be obtained.
InitFilter ==
    /\ codecIn = NoInput
    /\ backend \in {"corebluetooth", "windows"}
    /\ bound = MaxEvents
    /\ connected = {}
    /\ filter \in [Callers -> Filters]
    /\ filter[2] = {}
    /\ op = [c \in Callers |-> IF c = 1 THEN "scan" ELSE "none"]
    /\ InitCommon

NextFilter ==
    \/ backend = "corebluetooth" /\ PowerToggle
    \/ DeliverState
    \/ \E d \in FilterAdvertisers : Discover(d)
    \/ \E d \in FilterAdvertisers, f \in Failures : WinAdvert(d, f)
    \/ \E c \in Callers :
        \/ ScanCheck(c)
        \/ ScanSwap(c)
        \/ ScanSubscribe(c)
        \/ ScanStart(c)
        \/ ScanPoll(c)
        \/ ScanDropStop(c)
        \/ ScanDropStore(c)
        \/ WinScan(c)
        \/ WinStopped(c)
        \/ WinPoll(c)
        \/ WinDrop(c)

SpecFilter == InitFilter /\ [][NextFilter]_vars

\* Two calls, the first on device 1, start on an available adapter.
InitConn ==
    /\ codecIn = NoInput
    /\ bound = MaxEvents
    /\ connected = {}
    /\ filter = [c \in Callers |-> {}]
    /\ backend = "corebluetooth"
    /\ op \in [Callers -> {"connect", "disconnect"}]
    /\ InitCommon
    /\ power = "On"
    /\ target[1] = 1

\* The calls, the power transitions and the answers to the calls' commands.
NextCalls ==
    \/ PowerToggle
    \/ DeliverState
    \/ \E c \in Callers :
        \/ ConnCheck(c)
        \/ ConnStep(c)
        \/ NativeRespond(c)
        \/ ConnNext(c)

\* ... and peripherals that disconnect on their own.
NextConn ==
    \/ NextCalls
    \/ \E d \in Devices : NativeDisconnect(d, FALSE)

SpecConn == InitConn /\ [][NextConn]_vars

\* The dispatch queue runs every callback it holds, and the executor polls a
\* call whose stream has an item.
FairConn ==
    /\ WF_vars(DeliverState)
    /\ \A c \in Callers : WF_vars(ConnNext(c))

\* The calls under fair scheduling.
SpecConnFair == InitConn /\ [][NextCalls]_vars /\ FairConn

\* The same calls on a bridge whose senders may all be dropped.
NextClosed == NextConn \/ CloseSender

SpecClosed == InitConn /\ [][NextClosed]_vars

InitWait ==
    /\ codecIn = NoInput
    /\ bound = MaxEvents
    /\ connected = {}
    /\ filter = [c \in Callers |-> {}]
    /\ backend \in {"corebluetooth", "windows"}
    /\ op = [c \in Callers |-> "wait"]
    /\ InitCommon

NextWait ==
    \/ PowerToggle
    \/ DeliverState
    \/ WinDeliverState
    \/ NativeDisconnect(1, FALSE)
    \/ \E c \in Callers :
        \/ WaitCheck(c)
        \/ WaitSubscribe(c)
        \/ WaitNext(c)
        \/ WinWaitRegister(c)
        \/ WinWaitCheck(c)
        \/ WinWaitNext(c)

SpecWait == InitWait /\ [][NextWait]_vars

\* events() streams and wait_available calls while the adapter goes on and
\* off and a peripheral disconnects.
InitEvents ==
    /\ codecIn = NoInput
    /\ bound = MaxEvents
    /\ connected = {}
    /\ filter = [c \in Callers |-> {}]
    /\ backend \in {"corebluetooth", "windows"}
    /\ op \in [Callers -> {"events", "wait"}]
    /\ InitCommon

NextEvents ==
    \/ NextWait
    \/ \E c \in Callers :
        \/ WinWaitStateFails(c)
        \/ EventsOpen(c)
        \/ EventsNext(c)
        \/ WinEventsOpen(c)
        \/ WinEventsNext(c)
        \/ EventsDrop(c)

SpecEvents == InitEvents /\ [][NextEvents]_vars

\* The same on a CoreBluetooth bridge whose senders may all be dropped.
NextEventsClosed == NextEvents \/ (backend = "corebluetooth" /\ CloseSender)

SpecEventsClosed == InitEvents /\ [][NextEventsClosed]_vars

\* Subscribers that fall behind: two connect_device calls on CoreBluetooth
\* while peripherals 1 and 2 disconnect in turn, and a wait_available call on
\* Windows while the radio goes on and off (each handler run before the next
\* transition), for more notifications than the channels hold.
InitLag ==
    /\ codecIn = NoInput
    /\ bound = LagEvents
    /\ connected = {}
    /\ filter = [c \in Callers |-> {}]
    /\ backend \in {"corebluetooth", "windows"}
    /\ op = [c \in Callers |-> IF backend = "corebluetooth" THEN "connect"
                              ELSE IF c = 1 THEN "wait" ELSE "none"]
    /\ InitCommon
    /\ power = (IF backend = "corebluetooth" THEN "On" ELSE "Off")
    /\ backend = "corebluetooth" => target = [c \in Callers |-> c]

NextLag ==
    \/ \E d \in Devices : d = 1 + (Len(log) % 2) /\ NativeDisconnect(d, FALSE)
    \/ backend = "windows" /\ pendingSC = 0 /\ PowerToggle
    \/ WinDeliverState
    \/ \E c \in Callers :
        \/ ConnCheck(c)
        \/ ConnStep(c)
        \/ op[c] = "connect" /\ ConnNext(c)
        \/ WinWaitRegister(c)
        \/ WinWaitCheck(c)
        \/ WinWaitNext(c)

SpecLag == InitLag /\ [][NextLag]_vars

\* A connect_device call on an adapter that stays available, answered by
\* the native layer while another peripheral keeps disconnecting, for more
\* notifications than the bridge holds, under fair scheduling of the call.
InitLagConn ==
    /\ codecIn = NoInput
    /\ bound = LagEvents
    /\ connected = {}
    /\ filter = [c \in Callers |-> {}]
    /\ backend = "corebluetooth"
    /\ op = [c \in Callers |-> IF c = 1 THEN "connect" ELSE "none"]
    /\ InitCommon
    /\ power = "On"
    /\ target[1] = 1

NextLagConn ==
    \/ NativeDisconnect(2, FALSE)
    \/ \E c \in Callers :
        \/ ConnCheck(c)
        \/ ConnStep(c)
        \/ NativeRespond(c)
        \/ ConnNext(c)

SpecLagConnFair ==
    InitLagConn /\ [][NextLagConn]_vars /\ \A c \in Callers : WF_vars(ConnNext(c))

\* The inputs of the codec: company identifiers with their payloads, and
\* lists of data sections of every type class and of lengths around each
\* UUID width.
CompanyIds == {0, 1, 76, 255, 256, 4660, 65280, 65535}
PayloadBytes == {2, 21, 255}
SectionTypes == {22, 32, 33, 9, 255}
Bytes(n) == [i \in 1..n |-> i]
SectionData == {Bytes(n) : n \in {0, 1, 2, 3, 4, 5, 15, 16, 18}} \cup {<<9, 9, 9, 9, 9>>}

ManufacturerInputs ==
    {[kind |-> "manufacturer", company_id |-> id, data |-> d] :
        id \in CompanyIds, d \in SeqsUpTo(PayloadBytes, MaxPayload)}

SectionInputs ==
    {[kind |-> "sections", sections |-> ss] :
        ss \in SeqsUpTo([type : SectionTypes, data : SectionData, fails : {"none"}],
                        MaxSections)}

InitCodec ==
    /\ backend \in {"corebluetooth", "windows"}
    /\ bound = MaxEvents
    /\ connected = {}
    /\ filter = [c \in Callers |-> {}]
    /\ op = [c \in Callers |-> "none"]
    /\ InitCommon
    /\ power = "On"
    /\ codecIn \in IF backend = "corebluetooth" THEN ManufacturerInputs
                                               ELSE SectionInputs

NextCodec ==
    \/ EncodeManufacturerData
    \/ DecodeSection

SpecCodec == InitCodec /\ [][NextCodec]_vars

\* Received advertisements whose getters succeed or fail one by one, each
\* decoded twice.
PayloadSections ==
    [type : {22, 9}, data : {Bytes(1), Bytes(3), <<9, 9, 9>>},
     fails : {"none", "type", "data"}]

Payloads ==
    [kind : {"payload"},
     connectable : {"fail", "yes", "no"},
     tx : {"fail", "novalue", "p4"},
     adv : {"ok", "fail"},
     name : {"fail", "", "n"},
     manu : {"fail", "empty", "bad", "m"},
     uuids : {[ok |-> FALSE, list |-> <<>>], [ok |-> TRUE, list |-> <<"A">>]},
     sections : {[ok |-> FALSE, list |-> <<>>]}
                  \cup {[ok |-> TRUE, list |-> ss] :
                            ss \in SeqsUpTo(PayloadSections, MaxSections)}]

InitDecode ==
    /\ backend = "windows"
    /\ bound = MaxEvents
    /\ connected = {}
    /\ filter = [c \in Callers |-> {}]
    /\ op = [c \in Callers |-> "none"]
    /\ InitCommon
    /\ power = "On"
    /\ codecIn \in Payloads

NextDecode == DecodeAdvertisement

SpecDecode == InitDecode /\ [][NextDecode]_vars

\* The advertiser role: one start_advertising call, with or without
\* manufacturer data, among advertise and stop_advertising calls and the
\* drop of the guard.
InitAdvert ==
    /\ backend \in {"corebluetooth", "windows"}
    /\ bound = MaxEvents
    /\ connected = {}
    /\ filter = [c \in Callers |-> {}]
    /\ op = [c \in Callers |-> "none"]
    /\ InitCommon
    /\ power = "On"
    /\ codecIn \in ManufacturerInputs \cup {NoInput}

NextAdvert ==
    \/ StartAdvertising
    \/ \E timed \in BOOLEAN : Advertise(timed)
    \/ StopAdvertising
    \/ DropGuard

SpecAdvert == InitAdvert /\ [][NextAdvert]_vars

\* Enumerations of the connected devices, with and without a service filter,
\* while devices connect and disconnect.
InitEnum ==
    /\ codecIn = NoInput
    /\ bound = MaxEvents
    /\ backend \in {"corebluetooth", "windows"}
    /\ op \in [Callers -> IF backend = "windows" THEN {"enum", "enumall"} ELSE {"enum"}]
    /\ filter \in {f \in [Callers -> EnumFilters] :
                      \A c \in Callers : op[c] = "enumall" => f[c] = {}}
    /\ connected \in SUBSET Devices
    /\ InitCommon

NextEnum ==
    \/ \E d \in Devices : ConnectionChange(d)
    \/ \E c \in Callers :
        \/ WinEnumConnected(c)
        \/ WinEnumServices(c)
        \/ WinEnumAll(c)
        \/ CbEnum(c)

SpecEnum == InitEnum /\ [][NextEnum]_vars

\* ------------------------------------------------------------------ claims

Holders == {c \in Callers : pc[c] \in HolderPcs}
Watching == {c \in Callers : watch[c] = "started"}

\* C1 (as amended): on CoreBluetooth at most one native scan started by
\* scan() is active and at most one caller owns the scanning flag; a scan()
\* call that returns while another caller's scan stream is alive has failed,
\* with AlreadyScanning when its precondition check found the adapter powered
\* on and with AdapterUnavailable otherwise; and a call fails with
\* AlreadyScanning only against a caller that owns the flag, so of two calls
\* racing for a clear flag the first to swap succeeds and the other fails.
C1_SingleFlight ==
    backend = "corebluetooth" =>
        /\ Cardinality(active) <= 1
        /\ Cardinality(Holders) <= 1
        /\ \A c \in Callers :
            /\ held[c] =>
                 res[c] = (IF pwr[c] = "On" THEN "AlreadyScanning"
                                            ELSE "AdapterUnavailable")
            /\ res[c] = "AlreadyScanning" => blocked[c] # "none"

\* C1 witness: a scan() call failed with AlreadyScanning while the other
\* caller's stream, whose native scan is the active one, was alive.
C1_Witness ==
    /\ backend = "corebluetooth"
    /\ \E c, o \in Callers :
        /\ c # o
        /\ pc[c] = "stream" /\ res[c] = "Ok" /\ active = {c}
        /\ held[o] /\ res[o] = "AlreadyScanning" /\ blocked[o] = "stream"

\* C1 as stated: every scan() call that returns while another caller's scan
\* stream is alive has failed with AlreadyScanning.
C1_Original ==
    backend = "corebluetooth" =>
        /\ Cardinality(active) <= 1
        /\ \A c \in Callers : held[c] => res[c] = "AlreadyScanning"

\* C2: on Windows a scan() call that returns while another caller's scan
\* stream is alive has failed with AlreadyScanning, and at most one watcher
\* started by scan() runs.
C2_WinSingleFlight ==
    backend = "windows" =>
        /\ \A c \in Callers : held[c] => res[c] = "AlreadyScanning"
        /\ Cardinality(Watching) <= 1

\* C3: once a scan stream has been dropped, whatever its phase, its native
\* scan / watcher is stopped and (CoreBluetooth) the scanning flag is clear:
\* while the guard is between its two statements the native scan is already
\* stopped, with no stream left neither the flag nor the native scan is set,
\* a caller without a stream has no running watcher, and a later scan() never
\* fails with AlreadyScanning unless another caller owns the flag, nor with
\* AdapterUnavailable unless it found the adapter unavailable.
C3_DropReleases ==
    /\ backend = "corebluetooth" =>
        /\ \A c \in Callers : pc[c] = "stopping" => ~nativeScan
        /\ Holders = {} => ~scanning /\ ~nativeScan
    /\ backend = "windows" =>
        \A c \in Callers : pc[c] = "idle" => watch[c] = "none"
    /\ \A c \in Callers :
        /\ res[c] = "AlreadyScanning" => blocked[c] # "none"
        /\ res[c] = "AdapterUnavailable" => pwr[c] # "On"

\* C3 witness: streams have been dropped before their first item, between
\* items and after they ended, each drop has completed, and a scan() issued
\* after the latest drop has succeeded.
C3_Witness ==
    /\ backend = "corebluetooth"
    /\ dropped = {"fresh", "mid", "ended"}
    /\ \E c \in Callers :
        /\ pc[c] = "stream" /\ phase[c] = "fresh" /\ res[c] = "Ok"
        /\ \A o \in Callers \ {c} : pc[o] = "idle"

Matching(c, it, types) ==
    it.kind = "Item" /\ it.ev.type \in types /\ it.ev.dev = target[c]

\* C4: a disconnect_device call that ended on a Disconnect event of its own
\* device, processed while the adapter was available, returned Ok exactly
\* when the event carried no native error.
C4_DisconnectOk ==
    \A c \in Callers :
        (/\ op[c] = "disconnect" /\ pc[c] = "done"
         /\ Matching(c, last[c], {"Disconnect"}) /\ lastPwr[c] = "On")
        => (res[c] = "Ok" <=> ~last[c].ev.err)

\* C5: a connect_device call returns Ok only on a Connect event of its own
\* device, and a call whose last item was anything but a Connect or
\* ConnectFailed event of its own device has ended only because the adapter
\* was found unavailable, not because of that item.
C5_ConnectOnlyOnMatch ==
    \A c \in Callers :
        (op[c] = "connect" /\ pc[c] = "done") =>
            /\ res[c] = "Ok" => Matching(c, last[c], {"Connect"})
            /\ (/\ last[c].kind # "None"
                /\ ~Matching(c, last[c], {"Connect", "ConnectFailed"}))
               => (res[c] = "AdapterUnavailable" /\ lastPwr[c] = "Off")

\* C5 witness: a connect_device call has returned Ok on the Connect event of
\* its device after reading an event of another device.
C5_Witness ==
    \E c \in Callers :
        /\ op[c] = "connect" /\ pc[c] = "done" /\ res[c] = "Ok"
        /\ \E i \in (subAt[c] + 1)..(rx[c] - 2) :
            /\ log[i].type \in {"Connect", "ConnectFailed", "Disconnect"}
            /\ log[i].dev # target[c]

\* C8: a connect_device / disconnect_device call never returns Ok for an item
\* it processed while the adapter was unavailable: it returns
\* AdapterUnavailable; and a call that was waiting when the adapter left the
\* available state does not stay suspended while the adapter stays
\* unavailable.
C8_UnavailableAborts ==
    /\ [](\A c \in Callers :
            (pc[c] = "done" /\ lastPwr[c] = "Off") => res[c] = "AdapterUnavailable")
    /\ \A c \in Callers :
        (c \in leftWhile /\ pc[c] = "waiting" /\ power = "Off")
            ~> (pc[c] = "done" \/ power = "On")

\* C8 witness: a call that was waiting when the adapter left the available
\* state has ended with AdapterUnavailable while the adapter is still off.
C8_Witness ==
    \E c \in Callers :
        /\ c \in leftWhile /\ power = "Off"
        /\ pc[c] = "done" /\ lastPwr[c] = "Off" /\ res[c] = "AdapterUnavailable"

\* C9: a connect_device / disconnect_device call whose event stream ended
\* returned the Internal error.
C9_StreamEndIsError ==
    \A c \in Callers :
        (pc[c] = "done" /\ last[c].kind = "Closed") => res[c] = "Internal"

\* C10: every event that answers the native command of a call was published
\* after the call had subscribed, at a position its receiver reads.
C10_SubscribedBeforeCommand ==
    \A i \in 1..Len(log) :
        log[i].cmd # 0 =>
            /\ rx[log[i].cmd] # 0
            /\ subAt[log[i].cmd] < i

\* C10 witness: a call has read the answer to its own command, published
\* after another event that followed its subscription.
C10_Witness ==
    \E c \in Callers :
        /\ pc[c] = "done" /\ last[c].ev.cmd = c
        /\ subAt[c] + 1 < rx[c] - 1

\* C6: on CoreBluetooth a wait_available call never stays suspended while
\* the adapter is available: whenever it is suspended and the adapter is
\* powered on, a state-change notification it has not read yet is in its
\* subscription or about to be published.
C6_NoLostWakeup ==
    backend = "corebluetooth" =>
        \A c \in Callers :
            (op[c] = "wait" /\ pc[c] = "waiting" /\ power = "On") =>
                \/ pendingSC > 0
                \/ \E i \in rx[c]..Len(log) : log[i].type = "StateChanged"

\* C7: a wait_available call whose state check finds the adapter available
\* returns Ok at that check: it never suspends on the event stream and
\* consumes no adapter event.
C7_AvailableReturnsAtOnce ==
    \A c \in Callers :
        (op[c] = "wait" /\ pwr[c] = "On") =>
            /\ pc[c] = "done" /\ res[c] = "Ok"
            /\ ~waited[c] /\ last[c].kind = "None"
            /\ c \notin handlers

\* C7 witness: a call made on an available adapter has returned Ok although
\* no adapter event has occurred at all.
C7_Witness ==
    \E c \in Callers :
        /\ op[c] = "wait" /\ pwr[c] = "On" /\ pc[c] = "done" /\ res[c] = "Ok"
        /\ log = <<>> /\ pendingSC = 0

\* C11: a connect_device call that processes, with the adapter powered on, a
\* ConnectFailed event of its own device has returned an error of kind
\* ConnectionFailed; the error wraps the native error exactly when the event
\* carries one.
C11_ConnectFailedError ==
    \A c \in Callers :
        (/\ op[c] = "connect"
         /\ lastPwr[c] = "On"
         /\ Matching(c, last[c], {"ConnectFailed"}))
        => /\ pc[c] = "done"
           /\ ErrorOf(res[c]).kind = "ConnectionFailed"
           /\ ErrorOf(res[c]).native = last[c].ev.err

\* Two calls have failed on ConnectFailed events, one with and one without a
\* native error.
C11_Witness ==
    \E c, o \in Callers :
        /\ op[c] = "connect" /\ op[o] = "connect"
        /\ pc[c] = "done" /\ pc[o] = "done"
        /\ lastPwr[c] = "On" /\ lastPwr[o] = "On"
        /\ Matching(c, last[c], {"ConnectFailed"}) /\ last[c].ev.err
        /\ Matching(o, last[o], {"ConnectFailed"}) /\ ~last[o].ev.err
        /\ res[c] = "NativeError" /\ res[o] = "ConnectionFailed"

\* The events caller c's subscription has delivered before the latest one.
Earlier(c) == (subAt[c] + 1) .. (rx[c] - (IF pc[c] = "done" THEN 2 ELSE 1))

\* C12: concurrent connect/disconnect calls do not interfere. Each call reads
\* every event published after it subscribed, whatever the other calls have
\* read: the item it processed last is the event just behind its own cursor,
\* and no event behind it would have ended the call; a call that ended with
\* Ok or a connection error ended on an event of its own device.
C12_NoInterference ==
    \A c \in Callers :
        (op[c] \in {"connect", "disconnect"} /\ rx[c] # 0) =>
            /\ \A i \in Earlier(c) :
                   Outcome(c, [kind |-> "Item", ev |-> log[i]]) = "continue"
            /\ last[c].kind = "Item" => last[c].ev = log[rx[c] - 1]
            /\ (pc[c] = "done" /\ res[c] # "AdapterUnavailable") =>
                   /\ last[c].kind = "Item"
                   /\ last[c].ev.dev = target[c]
                   /\ res[c] = Outcome(c, last[c])

\* Two calls for different devices have both ended on their own events; the
\* second had subscribed before the first one's event was published and read
\* past it.
C12_Witness ==
    \E c, o \in Callers :
        /\ target[c] # target[o]
        /\ pc[c] = "done" /\ pc[o] = "done"
        /\ res[c] # "AdapterUnavailable" /\ res[o] # "AdapterUnavailable"
        /\ last[c].kind = "Item" /\ last[o].kind = "Item"
        /\ subAt[o] < rx[c] - 1
        /\ rx[c] < rx[o]

\* C13: on CoreBluetooth a scan() whose precondition check found the adapter
\* not powered on has returned AdapterUnavailable at that check: it issued no
\* native command and did not touch the scanning flag. So the flag is set
\* only while a caller that passed the check owns it, the native scan runs
\* only for such callers, and a scan() is refused with AlreadyScanning only
\* against a caller that owns the flag.
C13_UnavailableScanIsInert ==
    backend = "corebluetooth" =>
        /\ \A c \in Callers :
              pwr[c] = "Off" =>
                  /\ pc[c] = "idle"
                  /\ res[c] = "AdapterUnavailable"
                  /\ c \notin Holders
                  /\ c \notin active
        /\ scanning => \E h \in Holders : pwr[h] = "On"
        /\ nativeScan => (active # {} /\ \A a \in active : pwr[a] = "On")
        /\ \A c \in Callers :
              res[c] = "AlreadyScanning" => (blocked[c] # "none" /\ pwr[c] = "On")

\* A scan() failed while the adapter was off; the adapter then came on (its
\* only transition so far) and another caller's scan() succeeded.
C13_Witness ==
    /\ backend = "corebluetooth"
    /\ power = "On"
    /\ Len(log) + pendingSC = 1
    /\ \E c, o \in Callers :
          /\ pwr[c] = "Off" /\ res[c] = "AdapterUnavailable"
          /\ pc[o] = "stream" /\ res[o] = "Ok"
          /\ scanning /\ nativeScan

\* C15: once a CoreBluetooth scan stream has returned end-of-stream, the
\* cleanup has run: the native scan is stopped and the scanning flag is
\* released.
C15_CleanupOnExhaustion ==
    backend = "corebluetooth" =>
        \A c \in Callers :
            pc[c] = "ended" => (~nativeScan /\ ~scanning /\ c \notin active)

Streaming == {c \in Callers : op[c] = "scan" /\ pc[c] \in {"stream", "ended"}}

\* The advertisement's decoded services contain a UUID of the filter, or the
\* filter is empty.
Passes(fs, a) == fs = {} \/ fs \cap a.services # {}

\* The items a CoreBluetooth scan stream was handed before the one that ended
\* it.
WhileAlive(c) ==
    IF pc[c] = "ended" /\ seen[c] # <<>>
    THEN SubSeq(seen[c], 1, Len(seen[c]) - 1)
    ELSE seen[c]

IsDiscovered(it) == it.kind = "Item" /\ it.ev.type = "Discovered"

\* One AdvertisingDevice per Discovered event the stream was handed, in
\* order, and nothing for any other item.
CbStreamYields(c) ==
    LET d == SelectSeq(WhileAlive(c), IsDiscovered)
    IN  /\ Len(out[c]) = Len(d)
        /\ \A i \in 1..Len(d) : out[c][i] = d[i].ev

C19_CompanyIdLittleEndian ==
    (codecIn.kind = "manufacturer" /\ codecOut.done) =>
        codecOut.bytes =
            <<codecIn.company_id % 256, codecIn.company_id \div 256>> \o codecIn.data

\* The sections the decoder has gone through.
Decoded == 1..codecPos
Sec(i) == codecIn.sections[i]
\* The width in bytes of the UUID a section type stands for (0: none).
Width(i) ==
    IF Sec(i).type = 22 THEN 2
    ELSE IF Sec(i).type = 32 THEN 4
    ELSE IF Sec(i).type = 33 THEN 16
    ELSE 0
Holds(i) == Width(i) # 0 /\ Len(Sec(i).data) >= Width(i)
KeyOf(i) ==
    [kind |-> IF Width(i) = 2 THEN "U16" ELSE IF Width(i) = 4 THEN "U32" ELSE "U128",
     bytes |-> SubSeq(Sec(i).data, 1, Width(i))]
ValueOf(i) == SubSeq(Sec(i).data, Width(i) + 1, Len(Sec(i).data))

\* C20: the service data decoded so far has one entry for every section of
\* type 0x16, 0x20 or 0x21 that is long enough to hold its 16-, 32- or
\* 128-bit UUID: its key is that UUID and its value the bytes after it (of
\* the last such section when several carry the same UUID). Sections of any
\* other type and recognized sections too short for their UUID contribute
\* nothing, wherever they stand in the list.
C20_ServiceDataDecoding ==
    codecIn.kind = "sections" =>
        codecOut.map =
            {[key |-> KeyOf(i), value |-> ValueOf(i)] :
                i \in {j \in Decoded :
                          /\ Holds(j)
                          /\ \A l \in Decoded :
                                (l > j /\ Holds(l)) => KeyOf(l) # KeyOf(j)}}

\* C20 witness: the decoder has finished a list whose first section is
\* recognized but too short for its UUID and whose second is a 128-bit
\* section with two bytes of data after the UUID; the result holds the second
\* only.
C20_Witness ==
    /\ codecIn.kind = "sections"
    /\ codecOut.done
    /\ codecPos = 2
    /\ Width(1) # 0 /\ ~Holds(1)
    /\ Sec(2).type = 33 /\ Holds(2) /\ Len(ValueOf(2)) = 2
    /\ codecOut.map = {[key |-> KeyOf(2), value |-> ValueOf(2)]}

\* Callers that hold a subscription to the CoreBluetooth bridge.
Subscribed == {c \in Callers : backend = "corebluetooth" /\ rx[c] # 0}
\* The places in what c's subscription delivered where it reported a lag.
Lags(c) == {i \in 1..Len(seen[c]) : seen[c][i].kind = "Lagged"}

\* C16: what a subscription to the CoreBluetooth bridge has delivered is made
\* of events of the log in their order: up to its first lag report the
\* events published right after it subscribed, one after the other, and after
\* its last lag report the events that end just behind its cursor, one after
\* the other. Without a lag report nothing published after the subscription
\* and behind the cursor was left out; a lag report stands only where events
\* were left out.
C16_OrderedDelivery ==
    \A c \in Subscribed :
        LET s == seen[c]
            n == Len(s)
            first == IF Lags(c) = {} THEN n + 1
                     ELSE CHOOSE i \in Lags(c) : \A j \in Lags(c) : i <= j
            final == IF Lags(c) = {} THEN 0
                     ELSE CHOOSE i \in Lags(c) : \A j \in Lags(c) : i >= j
        IN  /\ \A i \in 1..(first - 1) : s[i].ev = log[subAt[c] + i]
            /\ \A i \in (final + 1)..n : s[i].ev = log[rx[c] - 1 - (n - i)]
            /\ \A i \in 1..n : s[i].kind \in {"Item", "Lagged"}
            /\ Lags(c) = {} => rx[c] = subAt[c] + 1 + n
            /\ Lags(c) # {} => rx[c] - 1 - subAt[c] > n - Cardinality(Lags(c))

\* C16 witness: one subscription fell behind, was told so and went on with a
\* later event, while another one, subscribed after the first event, got
\* every later event without a lag report.
C16_Witness ==
    \E c, o \in Subscribed :
        /\ \E i \in Lags(c) : i < Len(seen[c])
        /\ subAt[o] = 1
        /\ Lags(o) = {}
        /\ Len(seen[o]) = Len(log) - 1
        /\ Len(log) > Capacity

\* C17: every notification raised since a subscriber subscribed has been
\* read by it, is still queued for it, or was reported to it as missed (or
\* will be on its next read).
C17_LagIsObserved ==
    /\ \A c \in Subscribed :
          \/ Lags(c) # {}
          \/ Recv(c).kind = "Lagged"
          \/ Len(log) - subAt[c] = Len(seen[c]) + (Len(log) + 1 - rx[c])
    /\ \A c \in handlers :
          \/ \E i \in 1..Len(seen[c]) : seen[c][i].type \notin {"Available", "Unavailable"}
          \/ Len(log) - subAt[c] = Len(seen[c]) + Len(chan[c])

\* A section of a recognized type whose getters succeed and whose data holds
\* the UUID of that type, and the service-data entry it stands for.
WellFormed(sec) ==
    /\ sec.fails = "none"
    /\ KindOf(sec.type) # "None"
    /\ Len(sec.data) >= UuidLen(KindOf(sec.type))
EntryOf(sec) ==
    [key |-> [kind |-> KindOf(sec.type),
              bytes |-> SubSeq(sec.data, 1, UuidLen(KindOf(sec.type)))],
     value |-> SubSeq(sec.data, UuidLen(KindOf(sec.type)) + 1, Len(sec.data))]

\* The service data of a list of sections in which only the failing,
\* unrecognized or too short sections are left out.
WellFormedEntries(ss) ==
    {EntryOf(ss[i]) :
        i \in {j \in 1..Len(ss) :
                  /\ WellFormed(ss[j])
                  /\ \A l \in (j + 1)..Len(ss) :
                        WellFormed(ss[l]) => EntryOf(ss[l]).key # EntryOf(ss[j]).key}}

\* Every field but the service data holds what its getter returned, or its
\* default when the getter (or Advertisement()) failed.
FieldsDecoded(p, a) ==
    /\ a.is_connectable = (p.connectable = "yes")
    /\ a.tx_power_level = (IF p.tx \in {"fail", "novalue"} THEN "None" ELSE p.tx)
    /\ a.local_name =
          (IF p.adv = "fail" \/ p.name \in {"fail", ""} THEN "None" ELSE p.name)
    /\ a.manufacturer_data =
          (IF p.adv = "fail" \/ p.manu \in {"fail", "empty", "bad"} THEN "None"
                                                                    ELSE p.manu)
    /\ a.services = (IF p.adv = "fail" \/ ~p.uuids.ok THEN <<>> ELSE p.uuids.list)

\* C21: decoding a received advertisement always produces an
\* AdvertisementData; each field holds the value of its getter, or its
\* default when that getter failed; the service data has the entry of every
\* well-formed section, whatever fails in the other sections; and both
\* decodings of one payload are equal.
C21_DecodingIsTotal ==
    codecIn.kind = "payload" =>
        /\ \A i \in 1..Len(codecOut.decoded) :
              /\ FieldsDecoded(codecIn, codecOut.decoded[i])
              /\ codecOut.decoded[i].service_data =
                    (IF codecIn.adv = "ok" /\ codecIn.sections.ok
                     THEN WellFormedEntries(codecIn.sections.list) ELSE {})
        /\ codecOut.done => codecOut.decoded[1] = codecOut.decoded[2]

\* The set of the elements of a sequence.
Range(q) == {q[i] : i \in 1..Len(q)}

\* C22: on Windows a connected_devices_with_services call with a non-empty
\* filter that has returned, returned Ok with the devices that were connected
\* when it looked them up and expose a service of the filter, each of them
\* once; with no such device the list is empty.
C22_ConnectedWithServices ==
    backend = "windows" =>
        \A c \in Callers :
            (op[c] = "enum" /\ filter[c] # {} /\ pc[c] = "done") =>
                /\ res[c] = "Ok"
                /\ Range(out[c]) =
                      {d \in found[c] : \E x \in filter[c] : x \in GattServices(d)}
                /\ Len(out[c]) = Cardinality(Range(out[c]))

\* C22 witness: of two connected devices, the call with filter {A, B}
\* returned both, the first of which exposes both services, and the call
\* with filter {C} returned an empty list.
C22_Witness ==
    /\ backend = "windows"
    /\ op = [c \in Callers |-> "enum"]
    /\ \E c, o \in Callers :
        /\ pc[c] = "done" /\ filter[c] = {"A", "B"} /\ found[c] = {1, 2}
        /\ Len(out[c]) = 2
        /\ pc[o] = "done" /\ filter[o] = {"C"} /\ found[o] = {1, 2}
        /\ res[o] = "Ok" /\ out[o] = <<>>

\* C23: an enumeration of the connected devices called with an empty
\* service filter that has returned, returned Ok with every device that was
\* connected when it looked them up, each of them once.
C23_EmptyFilterReturnsAll ==
    \A c \in Callers :
        (op[c] \in {"enum", "enumall"} /\ filter[c] = {} /\ pc[c] = "done") =>
            /\ res[c] = "Ok"
            /\ Range(out[c]) = found[c]
            /\ Len(out[c]) = Cardinality(found[c])

\* C24: once the guard of a successful start_advertising has been dropped,
\* the advertisement that call started is off the air; and once
\* stop_advertising has been called on the advertiser after a successful
\* start_advertising, that advertisement is off the air.
C24_GuardStopsAdvertising ==
    /\ advert.guard = "dropped" => "guard" \notin advert.onAir
    /\ advert.stopped => "guard" \notin advert.onAir

\* C25: on CoreBluetooth the scanning flag is set whenever a native scan
\* started by scan() is active and whenever a call is about to start one; the
\* flag is cleared only when no native scan is active; and the cleanup of a
\* scan stream stops no native scan but the one its own call started.
C25_FlagCoversNativeScan ==
    /\ [](backend = "corebluetooth" =>
            /\ (nativeScan \/ active # {}) => scanning
            /\ \A c \in Callers : pc[c] \in {"claimed", "subscribed"} => scanning)
    /\ [][(scanning /\ ~scanning') => (~nativeScan /\ active = {})]_vars
    /\ [][\A c \in Callers :
            (pc[c] \in {"stream", "ended"} /\ pc'[c] \notin {"stream", "ended"})
                => active \subseteq {c}]_vars

\* C25 witness: a stream has been dropped and cleaned up, and a later scan()
\* call of the other caller holds the flag with its native scan active.
C25_Witness ==
    /\ backend = "corebluetooth"
    /\ dropped # {}
    /\ \E c, o \in Callers :
        /\ c # o
        /\ pc[o] = "idle" /\ res[o] = "Ok"
        /\ pc[c] = "stream" /\ active = {c} /\ nativeScan /\ scanning

\* The step is the return of a failed scan() call of caller c.
ScanFails(c) ==
    /\ op[c] = "scan"
    /\ pc[c] \in {"idle", "checked"}
    /\ pc'[c] = "idle"
    /\ res'[c] \in {"AlreadyScanning", "AdapterUnavailable"}
    /\ <<pc[c], res[c], pwr[c], held[c], blocked[c]>>
           # <<pc'[c], res'[c], pwr'[c], held'[c], blocked'[c]>>

\* C26: on CoreBluetooth the return of a failed scan() call changes neither
\* the scanning flag nor the native scan, publishes nothing and leaves every
\* other caller's stream, its subscription and what it has yielded as they
\* were; and a caller whose stream is alive still owns the flag and its
\* native scan is still the active one.
C26_FailedScanIsInert ==
    /\ [][\A c \in Callers :
            (backend = "corebluetooth" /\ ScanFails(c)) =>
                /\ scanning' = scanning
                /\ nativeScan' = nativeScan
                /\ active' = active
                /\ log' = log
                /\ \A o \in Callers \ {c} :
                      <<pc[o], rx[o], out[o], seen[o], phase[o]>>
                          = <<pc'[o], rx'[o], out'[o], seen'[o], phase'[o]>>]_vars
    /\ [](backend = "corebluetooth" =>
            \A c \in Callers :
                pc[c] \in {"stream", "ended"} =>
                    (scanning /\ nativeScan /\ active = {c}))

\* C26 witness: the other caller's scan() has failed with AlreadyScanning
\* against a stream that is alive, scans and has yielded two devices.
C26_Witness ==
    /\ backend = "corebluetooth"
    /\ \E c, o \in Callers :
        /\ c # o
        /\ res[o] = "AlreadyScanning" /\ held[o] /\ pc[o] = "idle"
        /\ pc[c] = "stream" /\ nativeScan /\ scanning
        /\ Len(out[c]) = 2

\* The native callback has published the answer to caller c's connect
\* command.
Answered(c) == \E i \in 1..Len(log) : log[i].cmd = c

\* C27: a connect_device call that is suspended on its event stream after
\* the callback has published the Connect or ConnectFailed event that answers
\* its command eventually returns.
C27_AnsweredConnectReturns ==
    \A c \in Callers :
        (op[c] = "connect" /\ pc[c] = "waiting" /\ Answered(c)) ~> (pc[c] = "done")

\* The StateChanged notifications among the first i published events.
ScCount(i) == Cardinality({j \in 1..i : log[j].type = "StateChanged"})

\* The power state the k-th transition of the behaviour led to: transitions
\* alternate, and the latest one led to the present state.
TransitionTo(k) ==
    IF (ScCount(Len(log)) + pendingSC - k) % 2 = 0 THEN power
    ELSE IF power = "On" THEN "Off" ELSE "On"

\* C28: what a CoreBluetooth events() stream that was never told of a lag
\* has yielded is, in order, one AdapterEvent per StateChanged notification
\* published since it subscribed and read by it: Available if the transition
\* notified was to powered-on and Unavailable otherwise; nothing else.
C28_EventsFollowTransitions ==
    backend = "corebluetooth" =>
        \A c \in Callers :
            (op[c] = "events" /\ rx[c] # 0 /\ Lags(c) = {}) =>
                LET read == {i \in (subAt[c] + 1)..(rx[c] - 1) :
                                log[i].type = "StateChanged"}
                IN  /\ Len(out[c]) = Cardinality(read)
                    /\ \A i \in read :
                          out[c][ScCount(i) - ScCount(subAt[c])] =
                              (IF TransitionTo(ScCount(i)) = "On" THEN "Available"
                                                                ELSE "Unavailable")

\* C29: on CoreBluetooth an events() stream that has ended because the
\* bridge's sender was closed yielded an Internal error last; a
\* wait_available call suspended on a closed bridge has an item to wake up
\* for, and once it has met the closure it has returned Internal.
C29_ClosureIsInternal ==
    backend = "corebluetooth" =>
        \A c \in Callers :
            /\ (op[c] = "events" /\ pc[c] = "ended") =>
                  (out[c] # <<>> /\ out[c][Len(out[c])] = "Internal")
            /\ (op[c] = "wait" /\ pc[c] = "waiting" /\ closed) =>
                  Recv(c).kind # "Pending"
            /\ (op[c] = "wait" /\ last[c].kind = "Closed") =>
                  (pc[c] = "done" /\ res[c] = "Internal")

\* Callers that hold a stream returned by events(), their own or the one
\* inside their wait_available call.
LiveStreams ==
    {c \in Callers :
        \/ op[c] = "events" /\ pc[c] \in {"stream", "ended"}
        \/ op[c] = "wait" /\ pc[c] \in {"registered", "waiting"}}

\* C30: on Windows the registered StateChanged handlers are those of the
\* live events() streams, one each: a dropped stream's handler is gone, and a
\* wait_available call that has returned, by any path, has none.
C30_HandlersFollowStreams ==
    backend = "windows" =>
        /\ handlers = LiveStreams
        /\ \A c \in Callers : pc[c] = "done" => c \notin handlers

\* C30 witness: a wait_available call that had to wait has returned Ok and
\* left no handler, while the other caller's events() stream, which has
\* yielded an event, holds the only one.
C30_Witness ==
    /\ backend = "windows"
    /\ \E c, o \in Callers :
        /\ op[c] = "wait" /\ pc[c] = "done" /\ waited[c] /\ res[c] = "Ok"
        /\ op[o] = "events" /\ pc[o] = "stream" /\ out[o] # <<>>
        /\ handlers = {o}

====
